---------------------------- MODULE Spec2Model ----------------------------
(***************************************************************************)
(* WsProxySession::Private (src/proxy/src/wsproxysession.cpp): one proxy   *)
(* session bridging a client WebSocket (inSock) to an origin WebSocket     *)
(* (outSock), with handshake failover, backpressure counters, GRIP         *)
(* routing through a control session, detach and teardown.                 *)
(*                                                                         *)
(* Every slot of the class is one action.  A slot is written as a pure     *)
(* operator over a record s holding the object's fields, the state of the  *)
(* two transports and what the outside has observed; the action commits    *)
(* the record the slot returns.  Pointers are numbers, 0 being null.       *)
(***************************************************************************)
EXTENDS Naturals, Integers, Sequences, FiniteSets, TLC

VARIABLES
    \* fields of WsProxySession::Private
    state, wsControlManager, wsControl, inSock, outSock, inPending, outPending,
    outReadInProgress, targets, messagePrefix, detached, subChannel,
    \* the two ZWebSocket transports: state(), frames queued for readFrame(),
    \* frames written and not yet reported by framesWritten(), peer close seen
    inState, outState, inAvail, outAvail, inUnacked, outUnacked,
    inPeerClosed, outPeerClosed,
    \* what the peers and the owner have observed
    inResponses, handshakes, outWritten, inWritten, inRelayed, gripSent, finished,
    msgRoutes, entryTargets, outSocks, errorCondition, crashed, nullUsed, inLog,
    outLog, inOpen,
    \* what the environment has produced so far
    clientSent, originSent, originMore, originControl, events, clientEnded

vars == << state, wsControlManager, wsControl, inSock, outSock, inPending,
           outPending, outReadInProgress, targets, messagePrefix, detached,
           subChannel, inState, outState, inAvail, outAvail, inUnacked,
           outUnacked, inPeerClosed, outPeerClosed, inResponses, handshakes,
           outWritten, inWritten, inRelayed, gripSent, finished, msgRoutes, entryTargets,
           outSocks, errorCondition, crashed, nullUsed, inLog, outLog, inOpen, clientSent, originSent, originMore,
           originControl, events, clientEnded >>

-----------------------------------------------------------------------------
(* Program constant *)

PENDING_FRAMES_MAX == 100

(* Bounds of the model *)

\* longest target list a route entry carries
MaxTargets == 2
\* arrivals in the session: readyRead signals of either transport and
\* sendEvent deliveries of the control session, taken together
MaxTraffic == 3

-----------------------------------------------------------------------------
(* Byte arrays are tuples of characters *)

startsWith(data, prefix) ==
    /\ Len(prefix) <= Len(data)
    /\ SubSeq(data, 1, Len(prefix)) = prefix

mid(data, pos) == SubSeq(data, pos + 1, Len(data))

ControlPrefix == << "c", ":" >>
DefaultMessagePrefix == << "m", ":" >>
NoBytes == << >>


-----------------------------------------------------------------------------
(* Sec-WebSocket-Extensions parsing.  Positions are 0-based as in the code. *)

At(in, n) == in[n + 1]

\* QByteArray::mid(pos, len)
midLen(in, pos, len) == SubSeq(in, pos + 1, pos + len)

Whitespace == { " ", "\t" }

RECURSIVE trimLeft(_)
trimLeft(in) ==
    IF Len(in) > 0 /\ Head(in) \in Whitespace THEN trimLeft(Tail(in)) ELSE in

RECURSIVE trimRight(_)
trimRight(in) ==
    IF Len(in) > 0 /\ in[Len(in)] \in Whitespace
    THEN trimRight(SubSeq(in, 1, Len(in) - 1))
    ELSE in

\* QByteArray::trimmed()
trimmed(in) == trimRight(trimLeft(in))

\* first position >= start holding one of the characters of charList, or -1
RECURSIVE findNext(_, _, _)
findNext(in, charList, start) ==
    IF start >= Len(in) THEN -1
    ELSE IF At(in, start) \in charList THEN start
    ELSE findNext(in, charList, start + 1)

\* QByteArray::indexOf(char, from)
indexOf(in, c, from) == findNext(in, {c}, from)

\* QHash::operator[]= on a hash kept as a set of <<key, value>> pairs
hashSet(out, var, val) == { p \in out : p[1] # var } \cup { << var, val >> }

hashContains(h, var) == \E p \in h : p[1] = var

hashValue(h, var) == (CHOOSE p \in h : p[1] = var)[2]

ParseFailed == [ ok |-> FALSE, params |-> {} ]

\* the scan of a quoted value from position n: the value read so far is val
RECURSIVE scanQuoted(_, _, _)
scanQuoted(in, n, val) ==
    IF n >= Len(in) THEN [ ok |-> TRUE, complete |-> FALSE, at |-> n, val |-> val ]
    ELSE IF At(in, n) = "\\"
         THEN IF n + 1 >= Len(in)
              THEN [ ok |-> FALSE, complete |-> FALSE, at |-> n, val |-> val ]
              ELSE scanQuoted(in, n + 2, Append(val, At(in, n + 1)))
    ELSE IF At(in, n) = "\""
         THEN [ ok |-> TRUE, complete |-> TRUE, at |-> n + 1, val |-> val ]
    ELSE scanQuoted(in, n + 1, Append(val, At(in, n)))

\* the while loop of parseParams from position start with the hash out
RECURSIVE parseParamsFrom(_, _, _)
parseParamsFrom(in, start, out) ==
    IF start >= Len(in) THEN [ ok |-> TRUE, params |-> out ]
    ELSE
    LET at == findNext(in, { "=", ";" }, start) IN
    IF at = -1
    THEN parseParamsFrom(in, Len(in),
                         hashSet(out, trimmed(mid(in, start)), NoBytes))
    ELSE
    LET var == trimmed(midLen(in, start, at - start)) IN
    IF At(in, at) # "="
    THEN parseParamsFrom(in, at + 1, hashSet(out, var, NoBytes))
    ELSE IF at + 1 >= Len(in) THEN ParseFailed
    ELSE IF At(in, at + 1) = "\""
    THEN LET q == scanQuoted(in, at + 2, NoBytes)
             semi == indexOf(in, ";", q.at)
         IN  IF ~q.ok \/ ~q.complete THEN ParseFailed
             ELSE parseParamsFrom(in,
                                  IF semi # -1 THEN semi + 1 ELSE Len(in),
                                  hashSet(out, var, q.val))
    ELSE LET vstart == at + 1
             semi == indexOf(in, ";", vstart)
         IN  IF semi # -1
             THEN parseParamsFrom(in, semi + 1,
                      hashSet(out, var, trimmed(midLen(in, vstart, semi - vstart))))
             ELSE parseParamsFrom(in, Len(in),
                      hashSet(out, var, trimmed(mid(in, vstart))))

parseParams(in) == parseParamsFrom(in, 0, {})

NullExtension == [ name |-> NoBytes, params |-> {} ]

\* HttpExtension::isNull
isNull(e) == e.name = NoBytes

RECURSIVE getExtension(_, _)
getExtension(extStrings, name) ==
    IF extStrings = << >> THEN NullExtension
    ELSE
    LET ext == Head(extStrings)
        at == indexOf(ext, ";", 0)
        found == IF at # -1 THEN trimmed(midLen(ext, 0, at)) = name
                 ELSE ext = name
    IN  IF ~found THEN getExtension(Tail(extStrings), name)
        ELSE IF at = -1 THEN [ name |-> name, params |-> {} ]
        ELSE LET p == parseParams(mid(ext, at + 1))
             IN  IF ~p.ok THEN NullExtension
                 ELSE [ name |-> name, params |-> p.params ]

GripName == << "g", "r", "i", "p" >>
MessagePrefixParam ==
    << "m", "e", "s", "s", "a", "g", "e", "-", "p", "r", "e", "f", "i", "x" >>

\* Sec-WebSocket-Extensions values an origin may answer with:
\* none; "grip"; "grip; message-prefix=p:"; "grip;message-prefix="p:""
\* (quoted); "grip; message-prefix="p:" (quote never closed, malformed)
ExtensionHeaders ==
    { << >>,
      << GripName >>,
      << GripName \o << ";", " " >> \o MessagePrefixParam \o << "=", "p", ":" >> >>,
      << GripName \o << ";" >> \o MessagePrefixParam
           \o << "=", "\"", "p", ":", "\"" >> >>,
      << GripName \o << ";", " " >> \o MessagePrefixParam \o << "=", "\"", "p", ":" >> >> }

-----------------------------------------------------------------------------
(* The session as one record *)

Cur ==
    [ state |-> state, wsControlManager |-> wsControlManager,
      wsControl |-> wsControl, inSock |-> inSock, outSock |-> outSock,
      inPending |-> inPending, outPending |-> outPending,
      outReadInProgress |-> outReadInProgress, targets |-> targets,
      messagePrefix |-> messagePrefix, detached |-> detached,
      subChannel |-> subChannel, inState |-> inState, outState |-> outState,
      inAvail |-> inAvail, outAvail |-> outAvail, inUnacked |-> inUnacked,
      outUnacked |-> outUnacked, inPeerClosed |-> inPeerClosed,
      outPeerClosed |-> outPeerClosed, inResponses |-> inResponses,
      handshakes |-> handshakes, outWritten |-> outWritten,
      inWritten |-> inWritten, inRelayed |-> inRelayed, gripSent |-> gripSent, finished |-> finished,
      msgRoutes |-> msgRoutes, entryTargets |-> entryTargets,
      outSocks |-> outSocks, errorCondition |-> "None",
      crashed |-> crashed, nullUsed |-> nullUsed, inLog |-> inLog,
      outLog |-> outLog, inOpen |-> inOpen,
      clientSent |-> clientSent, originSent |-> originSent,
      originMore |-> originMore, originControl |-> originControl,
      events |-> events,
      clientEnded |-> clientEnded ]

\* the fields take the values of the record r, computed once
Commit(r) ==
    \E s \in { r } :
        /\ state' = s.state
        /\ wsControlManager' = s.wsControlManager
        /\ wsControl' = s.wsControl
        /\ inSock' = s.inSock
        /\ outSock' = s.outSock
        /\ inPending' = s.inPending
        /\ outPending' = s.outPending
        /\ outReadInProgress' = s.outReadInProgress
        /\ targets' = s.targets
        /\ messagePrefix' = s.messagePrefix
        /\ detached' = s.detached
        /\ subChannel' = s.subChannel
        /\ inState' = s.inState
        /\ outState' = s.outState
        /\ inAvail' = s.inAvail
        /\ outAvail' = s.outAvail
        /\ inUnacked' = s.inUnacked
        /\ outUnacked' = s.outUnacked
        /\ inPeerClosed' = s.inPeerClosed
        /\ outPeerClosed' = s.outPeerClosed
        /\ inResponses' = s.inResponses
        /\ handshakes' = s.handshakes
        /\ outWritten' = s.outWritten
        /\ inWritten' = s.inWritten
        /\ inRelayed' = s.inRelayed
        /\ gripSent' = s.gripSent
        /\ finished' = s.finished
        /\ msgRoutes' = s.msgRoutes
        /\ entryTargets' = s.entryTargets
        /\ outSocks' = s.outSocks
        /\ errorCondition' = s.errorCondition
        /\ crashed' = s.crashed
        /\ nullUsed' = s.nullUsed
        /\ inLog' = s.inLog
        /\ outLog' = s.outLog
        /\ inOpen' = s.inOpen
        /\ clientSent' = s.clientSent
        /\ originSent' = s.originSent
        /\ originMore' = s.originMore
        /\ originControl' = s.originControl
        /\ events' = s.events
        /\ clientEnded' = s.clientEnded

\* Private(...): the state after construction; the control manager may be null
Init ==
    /\ state = "Idle"
    /\ wsControlManager \in { 0, 1 }
    /\ wsControl = 0
    /\ inSock = 0
    /\ outSock = 0
    /\ inPending = 0
    /\ outPending = 0
    /\ outReadInProgress = "None"
    /\ targets = << >>
    /\ messagePrefix = NoBytes
    /\ detached = FALSE
    /\ subChannel = ""
    /\ inState = "Idle"
    /\ outState = "Idle"
    /\ inAvail = << >>
    /\ outAvail = << >>
    /\ inUnacked = 0
    /\ outUnacked = 0
    /\ inPeerClosed = FALSE
    /\ outPeerClosed = FALSE
    /\ inResponses = << >>
    /\ handshakes = << >>
    /\ outWritten = 0
    /\ inWritten = 0
    /\ inRelayed = 0
    /\ gripSent = << >>
    /\ finished = 0
    /\ msgRoutes = << >>
    /\ entryTargets = << >>
    /\ outSocks = {}
    /\ errorCondition = "None"
    /\ crashed = FALSE
    /\ nullUsed = FALSE
    /\ inLog = << >>
    /\ outLog = << >>
    /\ inOpen = FALSE
    /\ clientSent = 0
    /\ originSent = 0
    /\ originMore = FALSE
    /\ originControl = FALSE
    /\ events = 0
    /\ clientEnded = FALSE

-----------------------------------------------------------------------------
(* Calls on the transports and on the control session *)

\* A call through a null pointer is undefined: the process is killed, or the
\* call returns having done nothing (a value it returns then reads as 0).
NullDerefOutcomes == { "crash", "skip" }

nullDeref(s, ub) ==
    IF ub = "crash" THEN [ s EXCEPT !.crashed = TRUE, !.nullUsed = TRUE ]
    ELSE [ s EXCEPT !.nullUsed = TRUE ]

\* a failed assert() aborts the process
assertFailed(s) == [ s EXCEPT !.crashed = TRUE ]

\* delete inSock; inSock = 0
deleteInSock(s) ==
    [ s EXCEPT !.inSock = 0, !.inState = "Idle", !.inAvail = << >>,
               !.inUnacked = 0, !.inPeerClosed = FALSE ]

\* delete outSock; outSock = 0
deleteOutSock(s) ==
    [ s EXCEPT !.outSock = 0, !.outState = "Idle", !.outAvail = << >>,
               !.outUnacked = 0, !.outPeerClosed = FALSE,
               !.outSocks = @ \ { s.outSock } ]

\* inSock->writeFrame(f); frames read from outSock carry their number seq,
\* frames made for a sendEvent carry 0; inLog lists the numbers written;
\* inOpen tells whether the last content frame written had more set
inWriteFrame(s, f, ub) ==
    IF s.inSock = 0 THEN nullDeref(s, ub)
    ELSE [ s EXCEPT !.inWritten = @ + 1,
                    !.inRelayed = IF f.seq # 0 THEN @ + 1 ELSE @,
                    !.inLog = IF f.seq # 0 THEN Append(@, f.seq) ELSE @,
                    !.inOpen = IF f.type = "Ping" THEN @ ELSE f.more,
                    !.inUnacked = @ + 1 ]

\* outSock->writeFrame(f); a client frame is its number, outLog lists the
\* numbers written
outWriteFrame(s, f, ub) ==
    IF s.outSock = 0 THEN nullDeref(s, ub)
    ELSE [ s EXCEPT !.outWritten = @ + 1, !.outUnacked = @ + 1,
                    !.outLog = Append(@, f) ]

\* inSock->close() and outSock->close()
inClose(s) == [ s EXCEPT !.inState = "Closing" ]
outClose(s) == [ s EXCEPT !.outState = "Closing" ]

\* wsControl->sendGripMessage(message)
sendGripMessage(s, message) == [ s EXCEPT !.gripSent = Append(@, message) ]

\* the routing of one content frame of the upstream message being read
noteRoute(s, f, route) ==
    [ s EXCEPT !.msgRoutes = IF f.type = "Continuation" THEN Append(@, route)
                             ELSE << route >> ]

-----------------------------------------------------------------------------
(* Methods of WsProxySession::Private *)

cleanup(s) == [ deleteOutSock(deleteInSock(s)) EXCEPT !.wsControl = 0 ]

NoHeaders == << >>

reject(s, code, reason, headers, body, ub) ==
    IF s.state # "Connecting" THEN assertFailed(s)
    ELSE LET s1 == [ s EXCEPT !.state = "Closing" ] IN
         IF s1.inSock = 0 THEN nullDeref(s1, ub)
         ELSE [ s1 EXCEPT
                  !.inResponses = Append(@, [ kind |-> "error", code |-> code,
                                              reason |-> reason,
                                              headers |-> headers,
                                              body |-> body ]),
                  !.inState = "Closing" ]

\* reject(int, QString, QString): no headers, the message and a line feed
rejectMessage(s, code, reason, errorMessage, ub) ==
    reject(s, code, reason, NoHeaders, errorMessage \o "\n", ub)

\* tryNextTarget answering nothing when no target is left
tryNextTargetSilent(s, ub) ==
    IF s.targets = << >>
    THEN s
    ELSE LET target == Head(s.targets) IN
         [ s EXCEPT !.targets = Tail(@),
                    !.subChannel = target.subChannel,
                    !.outSock = Len(s.handshakes) + 1,
                    !.outSocks = @ \cup { Len(s.handshakes) + 1 },
                    !.outState = "Connecting",
                    !.handshakes = Append(@, target.id) ]

tryNextTarget(s, ub) ==
    IF s.targets = << >>
    THEN rejectMessage(s, 502, "Bad Gateway", "Error while proxying to origin.", ub)
    ELSE LET target == Head(s.targets) IN
         [ s EXCEPT !.targets = Tail(@),
                    !.subChannel = target.subChannel,
                    !.outSock = Len(s.handshakes) + 1,
                    !.outSocks = @ \cup { Len(s.handshakes) + 1 },
                    !.outState = "Connecting",
                    !.handshakes = Append(@, target.id) ]

\* start() taking a null entry for an entry without targets
startIgnoringNullEntry(s, entry, host, ub) ==
    IF s.inSock # 0 THEN assertFailed(s)
    ELSE LET s1 == [ s EXCEPT !.state = "Connecting", !.inSock = 1,
                              !.inState = "Connecting" ] IN
         tryNextTarget([ s1 EXCEPT !.targets = entry.targets,
                                   !.entryTargets = entry.targets ], ub)

start(s, entry, host, ub) ==
    IF s.inSock # 0 THEN assertFailed(s)
    ELSE LET s1 == [ s EXCEPT !.state = "Connecting", !.inSock = 1,
                              !.inState = "Connecting" ] IN
         IF entry.isNull
         THEN rejectMessage(s1, 502, "Bad Gateway", "No route for host: " \o host, ub)
         ELSE tryNextTarget([ s1 EXCEPT !.targets = entry.targets,
                                        !.entryTargets = entry.targets ], ub)

\* a turn of tryReadIn's loop that writes the frame and leaves it queued
tryReadInStepRereading(s, ub) ==
    IF s.crashed THEN s
    ELSE IF ~(Len(s.inAvail) > 0 /\ s.outPending < PENDING_FRAMES_MAX) THEN s
    ELSE LET f == Head(s.inAvail)
             s1 == s
         IN  IF s1.detached THEN s1
             ELSE LET s2 == outWriteFrame(s1, f, ub) IN
                  IF s2.crashed THEN s2
                  ELSE [ s2 EXCEPT !.outPending = @ + 1 ]

\* a turn of tryReadIn's loop that tests framesAvailable() only
tryReadInStepNoCeiling(s, ub) ==
    IF s.crashed THEN s
    ELSE IF ~(Len(s.inAvail) > 0) THEN s
    ELSE LET f == Head(s.inAvail)
             s1 == [ s EXCEPT !.inAvail = Tail(@) ]
         IN  IF s1.detached THEN s1
             ELSE LET s2 == outWriteFrame(s1, f, ub) IN
                  IF s2.crashed THEN s2
                  ELSE [ s2 EXCEPT !.outPending = @ + 1 ]

\* one turn of tryReadIn's loop: its condition, then its body
tryReadInStep(s, ub) ==
    IF s.crashed THEN s
    ELSE IF ~(Len(s.inAvail) > 0 /\ s.outPending < PENDING_FRAMES_MAX) THEN s
    ELSE LET f == Head(s.inAvail)
             s1 == [ s EXCEPT !.inAvail = Tail(@) ]
         IN  IF s1.detached THEN s1
             ELSE LET s2 == outWriteFrame(s1, f, ub) IN
                  IF s2.crashed THEN s2
                  ELSE [ s2 EXCEPT !.outPending = @ + 1 ]

\* k turns of the loop.  A turn whose condition fails changes nothing and
\* the condition, once false, stays false, so the loop is its first
\* framesAvailable() turns; they are taken half by half.
RECURSIVE tryReadInTurns(_, _, _)
tryReadInTurns(s, ub, k) ==
    IF s.crashed \/ k = 0 THEN s
    ELSE IF k = 1 THEN tryReadInStep(s, ub)
    ELSE tryReadInTurns(tryReadInTurns(s, ub, k \div 2), ub, k - (k \div 2))

tryReadIn(s, ub) ==
    IF s.crashed THEN s
    ELSE IF s.inSock = 0 THEN nullDeref(s, ub)
    ELSE tryReadInTurns(s, ub, Len(s.inAvail))

\* inSock->writeFrame(f); ++inPending;
relayToClient(s, f, ub) ==
    LET s1 == inWriteFrame(s, f, ub) IN
    IF s1.crashed THEN s1 ELSE [ s1 EXCEPT !.inPending = @ + 1 ]

\* if(!f.more) outReadInProgress = -1;
endOfMessage(s, f) ==
    IF s.crashed \/ f.more THEN s ELSE [ s EXCEPT !.outReadInProgress = "None" ]

\* the loop body handing every "c:" frame to the control session, fragment or not
readOutFrameAnyFragment(s, f, ub) ==
    IF f.type \in { "Text", "Binary", "Continuation" }
    THEN IF f.type = "Continuation" /\ s.outReadInProgress = "None"
         THEN noteRoute(s, f, "dropped")
         ELSE
         LET s1 == IF f.type # "Continuation"
                   THEN [ s EXCEPT !.outReadInProgress = f.type ] ELSE s
         IN
         IF s1.wsControl # 0
         THEN IF f.type = "Text" /\ startsWith(f.data, ControlPrefix)
              THEN IF TRUE
                   THEN endOfMessage(
                            noteRoute(sendGripMessage(s1, mid(f.data, 2)),
                                      f, "control"), f)
                   ELSE endOfMessage(
                            noteRoute([ s1 EXCEPT !.outReadInProgress = "None" ],
                                      f, "dropped"), f)
              ELSE IF f.type # "Continuation" /\ startsWith(f.data, s1.messagePrefix)
              THEN endOfMessage(relayToClient(noteRoute(s1, f, "client"), f, ub), f)
              ELSE IF f.type = "Continuation"
              THEN IF s1.outReadInProgress = "None" THEN assertFailed(s1)
                   ELSE endOfMessage(
                            relayToClient(noteRoute(s1, f, "client"), f, ub), f)
              ELSE endOfMessage(noteRoute(s1, f, "dropped"), f)
         ELSE endOfMessage(relayToClient(noteRoute(s1, f, "client"), f, ub), f)
    ELSE relayToClient(s, f, ub)

\* the body of tryReadOut's loop for one frame read while not detached
readOutFrame(s, f, ub) ==
    IF f.type \in { "Text", "Binary", "Continuation" }
    THEN IF f.type = "Continuation" /\ s.outReadInProgress = "None"
         THEN noteRoute(s, f, "dropped")
         ELSE
         LET s1 == IF f.type # "Continuation"
                   THEN [ s EXCEPT !.outReadInProgress = f.type ] ELSE s
         IN
         IF s1.wsControl # 0
         THEN IF f.type = "Text" /\ startsWith(f.data, ControlPrefix)
              THEN IF ~f.more
                   THEN endOfMessage(
                            noteRoute(sendGripMessage(s1, mid(f.data, 2)),
                                      f, "control"), f)
                   ELSE endOfMessage(
                            noteRoute([ s1 EXCEPT !.outReadInProgress = "None" ],
                                      f, "dropped"), f)
              ELSE IF f.type # "Continuation" /\ startsWith(f.data, s1.messagePrefix)
              THEN endOfMessage(relayToClient(noteRoute(s1, f, "client"), f, ub), f)
              ELSE IF f.type = "Continuation"
              THEN IF s1.outReadInProgress = "None" THEN assertFailed(s1)
                   ELSE endOfMessage(
                            relayToClient(noteRoute(s1, f, "client"), f, ub), f)
              ELSE endOfMessage(noteRoute(s1, f, "dropped"), f)
         ELSE endOfMessage(relayToClient(noteRoute(s1, f, "client"), f, ub), f)
    ELSE relayToClient(s, f, ub)

\* a turn of tryReadOut's loop that does not look at detached
tryReadOutStepAttached(s, ub) ==
    IF s.crashed THEN s
    ELSE IF ~(Len(s.outAvail) > 0 /\ s.inPending < PENDING_FRAMES_MAX) THEN s
    ELSE LET f == Head(s.outAvail)
             s1 == [ s EXCEPT !.outAvail = Tail(@) ]
         IN  readOutFrame(s1, f, ub)

\* one turn of tryReadOut's loop: its condition, then its body
tryReadOutStep(s, ub) ==
    IF s.crashed THEN s
    ELSE IF ~(Len(s.outAvail) > 0 /\ s.inPending < PENDING_FRAMES_MAX) THEN s
    ELSE LET f == Head(s.outAvail)
             s1 == [ s EXCEPT !.outAvail = Tail(@) ]
         IN  IF s1.detached THEN s1 ELSE readOutFrame(s1, f, ub)

\* k turns of the loop, taken as in tryReadInTurns
RECURSIVE tryReadOutTurns(_, _, _)
tryReadOutTurns(s, ub, k) ==
    IF s.crashed \/ k = 0 THEN s
    ELSE IF k = 1 THEN tryReadOutStep(s, ub)
    ELSE tryReadOutTurns(tryReadOutTurns(s, ub, k \div 2), ub, k - (k \div 2))

tryReadOut(s, ub) ==
    IF s.crashed THEN s
    ELSE IF s.outSock = 0 THEN nullDeref(s, ub)
    ELSE tryReadOutTurns(s, ub, Len(s.outAvail))

\* tryFinish emitting the signal without cleanup()
tryFinishNoCleanup(s) ==
    IF s.crashed THEN s
    ELSE IF s.inSock = 0 /\ s.outSock = 0
    THEN [ s EXCEPT !.finished = @ + 1 ]
    ELSE s

tryFinish(s) ==
    IF s.crashed THEN s
    ELSE IF s.inSock = 0 /\ s.outSock = 0
    THEN [ cleanup(s) EXCEPT !.finished = @ + 1 ]
    ELSE s

-----------------------------------------------------------------------------
(* Slots *)

in_readyRead(s, ub) ==
    IF ~s.detached /\ s.outSock # 0 /\ s.outState = "Connected"
    THEN tryReadIn(s, ub)
    ELSE s

in_framesWritten(s, count, ub) ==
    LET s1 == [ s EXCEPT !.inPending = @ - count ] IN
    IF ~s1.detached THEN tryReadOut(s1, ub) ELSE s1

in_peerClosed(s) ==
    IF ~s.detached /\ s.outSock # 0 /\ s.outState # "Closing"
    THEN outClose(s)
    ELSE s

in_closed(s) ==
    LET s1 == deleteInSock(s)
        s2 == IF ~s1.detached /\ s1.outSock # 0 /\ s1.outState # "Closing"
              THEN outClose(s1) ELSE s1
    IN  tryFinish(s2)

in_error(s) ==
    LET s1 == deleteInSock(s)
        s2 == IF ~s1.detached THEN deleteOutSock(s1) ELSE s1
    IN  tryFinish(s2)

ExtensionsHeader == "Sec-WebSocket-Extensions"

\* HttpHeaders::takeAll(name): the values taken, and the headers left
takenValues(headers, name) ==
    LET keep == { i \in 1..Len(headers) : headers[i].name = name }
        F[i \in 0..Len(headers)] ==
            IF i = 0 THEN << >>
            ELSE IF i \in keep THEN Append(F[i - 1], headers[i].value)
            ELSE F[i - 1]
    IN  F[Len(headers)]

withoutHeader(headers, name) ==
    LET F[i \in 0..Len(headers)] ==
            IF i = 0 THEN << >>
            ELSE IF headers[i].name = name THEN F[i - 1]
            ELSE Append(F[i - 1], headers[i])
    IN  F[Len(headers)]

\* the subscribe request {"type": "subscribe", "channel": subChannel}
subscribeMessage(channel) == << "subscribe", channel >>

\* out_connected leaving state as it was
out_connectedKeepingState(s, response, ub) ==
    LET s1 == s
        wsExtensions == takenValues(response.headers, ExtensionsHeader)
        headers == withoutHeader(response.headers, ExtensionsHeader)
        grip == getExtension(wsExtensions, GripName)
        s2 == IF ~isNull(grip)
              THEN [ s1 EXCEPT !.messagePrefix =
                        IF hashContains(grip.params, MessagePrefixParam)
                        THEN hashValue(grip.params, MessagePrefixParam)
                        ELSE DefaultMessagePrefix ]
              ELSE s1
        s3 == IF s2.wsControlManager # 0
              THEN LET c == [ s2 EXCEPT !.wsControl = 1 ] IN
                   IF c.subChannel # ""
                   THEN sendGripMessage(c, subscribeMessage(c.subChannel))
                   ELSE c
              ELSE s2
        s4 == IF ~isNull(grip) \/ s1.subChannel # "" THEN s3 ELSE s1
        s5 == IF s4.inSock = 0 THEN nullDeref(s4, ub)
              ELSE [ s4 EXCEPT
                       !.inResponses = Append(@, [ kind |-> "success",
                                                   code |-> 101,
                                                   reason |-> response.reason,
                                                   headers |-> headers,
                                                   body |-> "" ]),
                       !.inState = "Connected" ]
    IN  tryReadIn(s5, ub)

out_connected(s, response, ub) ==
    LET s1 == [ s EXCEPT !.state = "Connected" ]
        wsExtensions == takenValues(response.headers, ExtensionsHeader)
        headers == withoutHeader(response.headers, ExtensionsHeader)
        grip == getExtension(wsExtensions, GripName)
        s2 == IF ~isNull(grip)
              THEN [ s1 EXCEPT !.messagePrefix =
                        IF hashContains(grip.params, MessagePrefixParam)
                        THEN hashValue(grip.params, MessagePrefixParam)
                        ELSE DefaultMessagePrefix ]
              ELSE s1
        s3 == IF s2.wsControlManager # 0
              THEN LET c == [ s2 EXCEPT !.wsControl = 1 ] IN
                   IF c.subChannel # ""
                   THEN sendGripMessage(c, subscribeMessage(c.subChannel))
                   ELSE c
              ELSE s2
        s4 == IF ~isNull(grip) \/ s1.subChannel # "" THEN s3 ELSE s1
        s5 == IF s4.inSock = 0 THEN nullDeref(s4, ub)
              ELSE [ s4 EXCEPT
                       !.inResponses = Append(@, [ kind |-> "success",
                                                   code |-> 101,
                                                   reason |-> response.reason,
                                                   headers |-> headers,
                                                   body |-> "" ]),
                       !.inState = "Connected" ]
    IN  tryReadIn(s5, ub)

out_readyRead(s, ub) == tryReadOut(s, ub)

\* out_framesWritten counting the acknowledgement and no more
out_framesWrittenCounting(s, count, ub) ==
    [ s EXCEPT !.outPending = @ - count ]

out_framesWritten(s, count, ub) ==
    LET s1 == [ s EXCEPT !.outPending = @ - count ] IN
    IF ~s1.detached THEN tryReadIn(s1, ub) ELSE s1

out_peerClosed(s) ==
    IF ~s.detached /\ s.inSock # 0 /\ s.inState # "Closing"
    THEN inClose(s)
    ELSE s

\* out_closed closing the client whether detached or not
out_closedPropagating(s) ==
    LET s1 == deleteOutSock(s)
        s2 == IF s1.inSock # 0 /\ s1.inState # "Closing"
              THEN inClose(s1) ELSE s1
    IN  tryFinish(s2)

out_closed(s) ==
    LET s1 == deleteOutSock(s)
        s2 == IF ~s1.detached /\ s1.inSock # 0 /\ s1.inState # "Closing"
              THEN inClose(s1) ELSE s1
    IN  tryFinish(s2)

TransientErrors == { "ErrorConnect", "ErrorConnectTimeout", "ErrorTls" }

\* out_error trying the next target after a rejection too
out_errorRetryRejected(s, e, response, ub) ==
    IF s.detached THEN tryFinish(deleteOutSock(s))
    ELSE IF s.state = "Connecting"
    THEN LET tryAgain == e \in TransientErrors \cup { "ErrorRejected" }
             s1 == IF tryAgain THEN s
                   ELSE rejectMessage(s, 502, "Bad Gateway",
                                      "Error while proxying to origin.", ub)
             s2 == IF s1.crashed THEN s1 ELSE deleteOutSock(s1)
         IN  IF tryAgain /\ ~s2.crashed THEN tryNextTarget(s2, ub) ELSE s2
    ELSE tryFinish(deleteOutSock(deleteInSock(s)))

\* out_error answering a rejection as it answers the default case
out_errorRejectedAsBadGateway(s, e, response, ub) ==
    IF s.detached THEN tryFinish(deleteOutSock(s))
    ELSE IF s.state = "Connecting"
    THEN LET tryAgain == e \in TransientErrors
             s1 == IF tryAgain THEN s
                   ELSE rejectMessage(s, 502, "Bad Gateway",
                                      "Error while proxying to origin.", ub)
             s2 == IF s1.crashed THEN s1 ELSE deleteOutSock(s1)
         IN  IF tryAgain /\ ~s2.crashed THEN tryNextTarget(s2, ub) ELSE s2
    ELSE tryFinish(deleteOutSock(deleteInSock(s)))

\* e is outSock->errorCondition(), response what the origin answered
out_error(s, e, response, ub) ==
    IF s.detached THEN tryFinish(deleteOutSock(s))
    ELSE IF s.state = "Connecting"
    THEN LET tryAgain == e \in TransientErrors
             s1 == IF tryAgain THEN s
                   ELSE IF e = "ErrorRejected"
                   THEN reject(s, response.code, response.reason,
                               response.headers, response.body, ub)
                   ELSE rejectMessage(s, 502, "Bad Gateway",
                                      "Error while proxying to origin.", ub)
             s2 == IF s1.crashed THEN s1 ELSE deleteOutSock(s1)
         IN  IF tryAgain /\ ~s2.crashed THEN tryNextTarget(s2, ub) ELSE s2
    ELSE tryFinish(deleteOutSock(deleteInSock(s)))

wsControl_sendEventReceived(s, contentType, message) ==
    IF s.inSock # 0 /\ s.inState # "Closing"
    THEN LET f == [ seq |-> 0,
                    type |-> IF contentType = "binary" THEN "Binary" ELSE "Text",
                    data |-> message, more |-> FALSE ]
             s1 == inWriteFrame(s, f, "crash")
         IN  [ s1 EXCEPT !.inPending = @ + 1 ]
    ELSE s

\* the detach handler closing outSock without looking at it
wsControl_detachEventReceivedClosing(s) ==
    IF s.detached THEN s
    ELSE outClose([ s EXCEPT !.detached = TRUE ])

wsControl_detachEventReceived(s) ==
    IF s.detached THEN s
    ELSE LET s1 == [ s EXCEPT !.detached = TRUE ] IN
         IF s1.outSock # 0 /\ s1.outState # "Closing" THEN outClose(s1) ELSE s1

-----------------------------------------------------------------------------
(* What the outside can present to the session *)

\* DomainMap::Target: the fields the session reads after the connection
\* setup.  Target i of a route is target number i; the even ones declare a
\* sub-channel.
target(i) == [ id |-> i, subChannel |-> IF i % 2 = 0 THEN "chan" ELSE "" ]

TargetLists == { [ i \in 1..n |-> target(i) ] : n \in 0..MaxTargets }

\* DomainMap::Entry, null or with its targets
Entries ==
    { [ isNull |-> TRUE, targets |-> << >> ] }
    \cup { [ isNull |-> FALSE, targets |-> ts ] : ts \in TargetLists }

Hosts == { "example.org", "example.net" }

ErrorConditions ==
    { "ErrorGeneric", "ErrorConnect", "ErrorConnectTimeout", "ErrorTls",
      "ErrorRejected" }

NoResponse == [ code |-> 0, reason |-> "", headers |-> << >>, body |-> "" ]

\* what a rejecting origin answers
RejectedResponses ==
    { [ code |-> 401, reason |-> "Unauthorized",
        headers |-> << [ name |-> "WWW-Authenticate", value |-> "Bearer" ] >>,
        body |-> "nope" ],
      [ code |-> 403, reason |-> "Forbidden", headers |-> << >>, body |-> "" ] }

\* what an accepting origin answers
extensionHeaders(values) ==
    [ i \in 1..Len(values) |-> [ name |-> ExtensionsHeader, value |-> values[i] ] ]

AcceptedResponses ==
    { [ code |-> 101, reason |-> "Switching Protocols",
        headers |-> << [ name |-> "Upgrade", value |-> "websocket" ] >>
                    \o extensionHeaders(ext),
        body |-> "" ] : ext \in ExtensionHeaders }

Payloads ==
    { << "c", ":", "k" >>, << "m", ":", "d" >>, << "p", ":", "d" >>, << "z", "z" >> }

PingFrame == [ type |-> "Ping", data |-> NoBytes, more |-> FALSE ]

\* the frames a well-formed origin may send next: a Continuation only inside
\* a message, a Text or Binary head only outside one
originChoices(inMessage) ==
    { PingFrame } \cup
    IF inMessage
    THEN [ type : { "Continuation" }, data : { << "x" >> }, more : BOOLEAN ]
    ELSE [ type : { "Text", "Binary" }, data : Payloads, more : BOOLEAN ]

ContentTypes == { "binary", "text" }
EventMessages == { << "b", "y", "e" >> }

Alive == ~crashed

\* framesWritten(count) reports one frame, or all that were written
ackCounts(unacked) == { n \in { 1, unacked } : 1 <= n /\ n <= unacked }

\* the origin's handshake is over: state leaves Connecting in out_connected
OutHandshakeDone == outSock # 0 /\ state # "Connecting"

-----------------------------------------------------------------------------
(* Actions: one per callback, with what the transport did to raise it *)

StartWith(entry, host) ==
    /\ Alive
    /\ state = "Idle"
    /\ \E ub \in NullDerefOutcomes : Commit(start(Cur, entry, host, ub))

Start == \E entry \in Entries, host \in Hosts : StartWith(entry, host)

\* the client sent n more frames: readyRead
InReadyRead(n) ==
    /\ Alive
    /\ inSock # 0
    /\ ~inPeerClosed
    /\ events < MaxTraffic
    /\ \E ub \in NullDerefOutcomes : Commit(in_readyRead(
           [ Cur EXCEPT !.inAvail = @ \o [ i \in 1..n |-> clientSent + i ],
                        !.clientSent = @ + n,
                        !.events = @ + 1 ], ub))

\* the client transport flushed count frames written to it: framesWritten
InFramesWritten ==
    \E count \in ackCounts(inUnacked) :
        /\ Alive
        /\ inSock # 0
        /\ \E ub \in NullDerefOutcomes : Commit(in_framesWritten(
               [ Cur EXCEPT !.inUnacked = @ - count ], count, ub))

InPeerClosed ==
    /\ Alive
    /\ inSock # 0
    /\ inState = "Connected"
    /\ ~inPeerClosed
    /\ Commit(in_peerClosed([ Cur EXCEPT !.inPeerClosed = TRUE,
                                         !.clientEnded = TRUE ]))

\* closed follows the session's own close() or respondError()
InClosed ==
    /\ Alive
    /\ inSock # 0
    /\ inState = "Closing"
    /\ Commit(in_closed([ Cur EXCEPT !.clientEnded = TRUE ]))

InError ==
    /\ Alive
    /\ inSock # 0
    /\ Commit(in_error([ Cur EXCEPT !.clientEnded = TRUE ]))

OutConnectedWith(response) ==
    /\ Alive
    /\ outSock # 0
    /\ outState = "Connecting"
    /\ \E ub \in NullDerefOutcomes : Commit(out_connected(
           [ Cur EXCEPT !.outState = "Connected" ], response, ub))

OutConnected == \E response \in AcceptedResponses : OutConnectedWith(response)

\* whether the origin is inside a fragmented message whose head is a Text
\* frame beginning with "c:", once it has sent f
controlMessageOpen(open, f) ==
    IF f.type = "Ping" THEN open
    ELSE IF f.type = "Continuation" THEN open /\ f.more
    ELSE f.more /\ f.type = "Text" /\ startsWith(f.data, ControlPrefix)

\* the origin sent the frames fs: readyRead
OutReadyRead(fs) ==
    /\ Alive
    /\ OutHandshakeDone
    /\ ~outPeerClosed
    /\ events < MaxTraffic
    /\ \E ub \in NullDerefOutcomes : Commit(out_readyRead(
           [ Cur EXCEPT
               !.outAvail = @ \o [ i \in 1..Len(fs) |->
                                     [ seq |-> originSent + i,
                                       type |-> fs[i].type,
                                       data |-> fs[i].data,
                                       more |-> fs[i].more ] ],
               !.originSent = @ + Len(fs),
               !.originMore = IF fs[Len(fs)].type = "Ping" THEN @
                              ELSE fs[Len(fs)].more,
               !.originControl = controlMessageOpen(@, fs[Len(fs)]),
               !.events = @ + 1 ], ub))

OutFramesWritten ==
    \E count \in ackCounts(outUnacked) :
        /\ Alive
        /\ outSock # 0
        /\ \E ub \in NullDerefOutcomes : Commit(out_framesWritten(
               [ Cur EXCEPT !.outUnacked = @ - count ], count, ub))

OutPeerClosed ==
    /\ Alive
    /\ OutHandshakeDone
    /\ outState = "Connected"
    /\ ~outPeerClosed
    /\ Commit(out_peerClosed([ Cur EXCEPT !.outPeerClosed = TRUE ]))

OutClosed ==
    /\ Alive
    /\ outSock # 0
    /\ outState = "Closing"
    /\ Commit(out_closed(Cur))

\* a handshake fails with any condition; later failures are ErrorGeneric
OutErrorWith(e, response) ==
    /\ Alive
    /\ outSock # 0
    /\ OutHandshakeDone => e = "ErrorGeneric"
    /\ \E ub \in NullDerefOutcomes : Commit(out_error([ Cur EXCEPT !.errorCondition = e ],
                        e, response, ub))

OutError ==
    \E e \in ErrorConditions :
        \E response \in IF e = "ErrorRejected" THEN RejectedResponses
                        ELSE { NoResponse } :
            OutErrorWith(e, response)

SendEvent ==
    \E contentType \in ContentTypes, message \in EventMessages :
        /\ Alive
        /\ wsControl # 0
        /\ events < MaxTraffic
        /\ Commit(wsControl_sendEventReceived(
               [ Cur EXCEPT !.events = @ + 1 ], contentType, message))

DetachEvent ==
    /\ Alive
    /\ wsControl # 0
    /\ Commit(wsControl_detachEventReceived(Cur))

ClientFrame == InReadyRead(1)

OriginFrame == \E f \in originChoices(originMore) : OutReadyRead(<< f >>)

Next ==
    \/ Start
    \/ ClientFrame
    \/ InFramesWritten
    \/ InPeerClosed
    \/ InClosed
    \/ InError
    \/ OutConnected
    \/ OriginFrame
    \/ OutFramesWritten
    \/ OutPeerClosed
    \/ OutClosed
    \/ OutError
    \/ SendEvent
    \/ DetachEvent

Spec == Init /\ [][Next]_vars

-----------------------------------------------------------------------------
(* Floods: the same session, with one peer sending enough frames at once    *)
(* for a pending counter to reach its ceiling                               *)

\* the client's traffic is one flood, of one frame more than may be pending
ClientFlood ==
    /\ clientSent = 0
    /\ InReadyRead(PENDING_FRAMES_MAX + 1)

\* the origin's traffic is one flood: PENDING_FRAMES_MAX copies of one
\* single-frame message, or of a Ping
OriginFlood ==
    \E f \in { g \in originChoices(FALSE) : ~g.more } :
        /\ originSent = 0
        /\ OutReadyRead([ i \in 1..PENDING_FRAMES_MAX |-> f ])

\* the client floods; the origin and the control session send nothing
NextUp ==
    \/ Start
    \/ ClientFlood
    \/ InPeerClosed
    \/ InClosed
    \/ InError
    \/ OutConnected
    \/ OutFramesWritten
    \/ OutPeerClosed
    \/ OutClosed
    \/ OutError
    \/ DetachEvent

SpecUp == Init /\ [][NextUp]_vars

\* the origin floods and the control session delivers; the client sends
\* nothing
NextDown ==
    \/ Start
    \/ InFramesWritten
    \/ InPeerClosed
    \/ InClosed
    \/ InError
    \/ OutConnected
    \/ OriginFlood
    \/ OutPeerClosed
    \/ OutClosed
    \/ OutError
    \/ SendEvent
    \/ DetachEvent

SpecDown == Init /\ [][NextDown]_vars

-----------------------------------------------------------------------------
(* Fairness: a transport the session has closed, or answered with an error  *)
(* response, reports closed or error                                        *)

InEnds == InClosed \/ (inState = "Closing" /\ InError)

OutEnds == OutClosed \/ (outState = "Closing" /\ OutError)

SpecFair == Init /\ [][Next]_vars /\ WF_vars(InEnds) /\ WF_vars(OutEnds)

-----------------------------------------------------------------------------
(* Stalls: one peer sends, at once, one frame more than may be pending, and *)
(* both peers keep acknowledging what was written to them                   *)

ClientStall ==
    clientSent = 0 /\ originSent = 0 /\ InReadyRead(PENDING_FRAMES_MAX + 1)

\* the origin's frames are all alike: a Ping, or a whole message
OriginStall ==
    /\ clientSent = 0
    /\ originSent = 0
    /\ \E f \in { g \in originChoices(FALSE) : ~g.more } :
           OutReadyRead([ i \in 1..(PENDING_FRAMES_MAX + 1) |-> f ])

\* neither peer closes on its own; either may fail
NextStall ==
    \/ Start
    \/ ClientStall
    \/ InFramesWritten
    \/ InClosed
    \/ InError
    \/ OutConnected
    \/ OriginStall
    \/ OutFramesWritten
    \/ OutClosed
    \/ OutError
    \/ DetachEvent

SpecStall ==
    Init /\ [][NextStall]_vars
         /\ WF_vars(InFramesWritten) /\ WF_vars(OutFramesWritten)

-----------------------------------------------------------------------------
(* Properties *)

\* C1: the frames of one upstream message read while not detached, its
\* head and its Continuations, all get the same routing: all written to the
\* client, all passed to the control session, or all dropped.  msgRoutes
\* holds the routing of each frame of the message being read.
C1_FragmentsRoutedAlike ==
    \A i, j \in 1..Len(msgRoutes) : msgRoutes[i] = msgRoutes[j]

\* C2: between callbacks inPending is at least 0 and at most
\* PENDING_FRAMES_MAX, whatever the interleaving of relayed origin frames,
\* sendEvent deliveries and client acknowledgements.
C2_InPendingWithinCeiling ==
    0 <= inPending /\ inPending <= PENDING_FRAMES_MAX

\* C3: between callbacks outPending is at least 0 and at most
\* PENDING_FRAMES_MAX, across failed handshakes, client bursts and origin
\* acknowledgements.
C3_OutPendingWithinCeiling ==
    0 <= outPending /\ outPending <= PENDING_FRAMES_MAX

\* the pump has stopped at the ceiling, after a failed handshake, with a
\* client frame left unread
C3_PumpStalledAtCeiling ==
    /\ outPending = PENDING_FRAMES_MAX
    /\ outWritten = PENDING_FRAMES_MAX
    /\ Len(inAvail) = 1
    /\ Len(handshakes) = 2
    /\ ~crashed

\* C4: finishedByPassthrough is emitted at most once, and when it has been
\* emitted inSock, outSock and the control session are null and no origin
\* transport is left alive.
C4_FinishedOnceAllReleased ==
    /\ finished <= 1
    /\ finished = 1 => /\ inSock = 0
                       /\ outSock = 0
                       /\ wsControl = 0
                       /\ outSocks = {}

\* a session with a control session, which sent a subscription, finished
C4_FinishedAfterControl ==
    /\ finished = 1
    /\ state = "Connected"
    /\ Len(gripSent) > 0
    /\ detached

\* C5: once the client transport has reported peerClosed, closed or error,
\* the session eventually emits finishedByPassthrough (a session whose
\* process was killed aside), detached or not.
C5_ClientEndLeadsToFinished ==
    clientEnded ~> (finished = 1 \/ crashed)

\* C6: once detached, outSock is null or closing, and no step writes a
\* frame to outSock, writes an upstream frame to the client, passes one to
\* the control session, or creates an origin transport.
C6_NothingUpstreamAfterDetach ==
    /\ [](detached => outSock = 0 \/ outState = "Closing")
    /\ [][detached => /\ outWritten' = outWritten
                      /\ inRelayed' = inRelayed
                      /\ gripSent' = gripSent
                      /\ handshakes' = handshakes
                      /\ outSocks' \subseteq outSocks]_vars

\* detached with outSock closing: a client frame is left unread and an
\* origin frame has been read and gone nowhere
C6_FramesDiscardedAfterDetach ==
    /\ detached
    /\ outSock # 0
    /\ clientSent = 1 /\ outWritten = 0 /\ Len(inAvail) = 1
    /\ originSent = 1 /\ outAvail = << >>
    /\ inRelayed = 0 /\ msgRoutes = << >> /\ Len(gripSent) <= 1
    /\ ~crashed

\* C7: while detached, the origin's peerClosed, closed and error leave
\* inSock and its state alone, a sendEvent received while inSock exists and
\* is not closing writes its frame, the session never closes inSock, and
\* inSock is released only by the client's own closed or error.
C7_ClientLegSurvives ==
    [][detached =>
         /\ (inSock' # inSock \/ inState' # inState)
                => ~(OutPeerClosed \/ OutClosed \/ OutError)
         /\ (/\ inSock # 0 /\ inState # "Closing"
             /\ events' # events
             /\ clientSent' = clientSent /\ originSent' = originSent
             /\ SendEvent)
                => inWritten' = inWritten + 1 /\ inUnacked' = inUnacked + 1
         /\ (inSock # 0 /\ inState # "Closing")
                => (inState' # "Closing" \/ inSock' = 0)
         /\ (inSock # 0 /\ inSock' = 0) => (InClosed \/ InError)]_vars

\* detached, the origin transport gone, the client connected and holding a
\* frame of a sendEvent
C7_ClientAloneWithEvent ==
    /\ detached
    /\ outSock = 0
    /\ outSocks = {}
    /\ inSock # 0
    /\ inState = "Connected"
    /\ inWritten > inRelayed
    /\ inUnacked > 0
    /\ finished = 0

\* C8: the handshakes made are the first targets of the route in list
\* order, each once, the targets left are the rest, and at most one origin
\* transport is alive; a handshake is started only by start() or after
\* out_error reported Connect, ConnectTimeout or Tls in state Connecting,
\* never once connected or closing.
C8_FailoverInListOrder ==
    /\ [](/\ Len(handshakes) + Len(targets) = Len(entryTargets)
          /\ Len(handshakes) <= Len(entryTargets)
          /\ \A i \in 1..Len(handshakes) : handshakes[i] = entryTargets[i].id
          /\ \A i \in 1..Len(targets) :
                 targets[i] = entryTargets[Len(handshakes) + i]
          /\ Cardinality(outSocks) <= 1
          /\ outSocks = IF outSock = 0 THEN {} ELSE { outSock })
    /\ [][/\ handshakes' # handshakes
              => \/ state = "Idle" /\ handshakes = << >>
                 \/ /\ state = "Connecting"
                    /\ outState = "Connecting"
                    /\ errorCondition' \in TransientErrors
          /\ state \in { "Connected", "Closing" }
              => handshakes' = handshakes /\ state' # "Connecting"]_vars

\* the first target failed, the second connected
C8_SecondTargetConnected ==
    /\ Len(handshakes) = 2
    /\ state = "Connected"
    /\ outSock = 2
    /\ outState = "Connected"

\* C9: when a target is needed and none is left, at start() with an entry
\* of zero targets or at out_error with Connect, ConnectTimeout or Tls after
\* the last target, the client is answered 502 "Bad Gateway", state is
\* Closing and outSock null; the client's closed or error then finishes
\* the session.
C9_NoTargetLeftRejects ==
    [][/\ (\/ \E entry \in Entries, host \in Hosts :
                  /\ ~entry.isNull
                  /\ entry.targets = << >>
                  /\ StartWith(entry, host)
           \/ /\ state = "Connecting"
              /\ outSock # 0
              /\ targets = << >>
              /\ errorCondition' \in TransientErrors)
          => /\ Len(inResponses') = Len(inResponses) + 1
             /\ inResponses'[Len(inResponses')].kind = "error"
             /\ inResponses'[Len(inResponses')].code = 502
             /\ inResponses'[Len(inResponses')].reason = "Bad Gateway"
             /\ state' = "Closing"
             /\ outSock' = 0
             /\ finished' = 0
       /\ (/\ state = "Closing"
           /\ Len(inResponses) > 0
           /\ inResponses[Len(inResponses)].code = 502
           /\ (InClosed \/ InError))
          => finished' = 1]_vars

\* both targets failed, the client was answered 502 and reported closed
C9_RejectedAfterLastTarget ==
    /\ Len(handshakes) = 2
    /\ targets = << >>
    /\ state = "Closing"
    /\ Len(inResponses) = 1
    /\ inResponses[1].code = 502
    /\ finished = 1

\* C10: when a handshake fails with Rejected in state Connecting, the
\* client is answered with the origin's code, reason, headers and body, no
\* further target is attempted though some may be left, and the client's
\* closed or error then finishes the session.
C10_RejectionForwarded ==
    [][/\ \A response \in RejectedResponses :
              (state = "Connecting" /\ OutErrorWith("ErrorRejected", response))
              => /\ inResponses' =
                        Append(inResponses, [ kind |-> "error",
                                              code |-> response.code,
                                              reason |-> response.reason,
                                              headers |-> response.headers,
                                              body |-> response.body ])
                 /\ state' = "Closing"
                 /\ outSock' = 0
                 /\ handshakes' = handshakes
                 /\ targets' = targets
       /\ state = "Closing"
              => /\ handshakes' = handshakes
                 /\ state' = "Closing"
                 /\ (InClosed \/ InError) => finished' = 1]_vars

\* the first target rejected, the client got the answer and reported
\* closed, the second target was never tried
C10_RejectedWithTargetLeft ==
    /\ handshakes = << 1 >>
    /\ Len(targets) = 1
    /\ inResponses =
           << [ kind |-> "error", code |-> 401, reason |-> "Unauthorized",
                headers |-> << [ name |-> "WWW-Authenticate",
                                 value |-> "Bearer" ] >>,
                body |-> "nope" ] >>
    /\ finished = 1

\* C11: when the router returns a null entry, start() answers the client
\* 502 "Bad Gateway" with a body naming the host; from then on no origin
\* transport and no control session exist, and the client's closed or error
\* finishes the session.
C11_NullEntryRejects ==
    [][/\ \A entry \in Entries, host \in Hosts :
              (entry.isNull /\ StartWith(entry, host))
              => /\ inResponses' =
                        << [ kind |-> "error", code |-> 502,
                             reason |-> "Bad Gateway", headers |-> << >>,
                             body |-> "No route for host: " \o host \o "\n" ] >>
                 /\ state' = "Closing"
                 /\ outSock' = 0 /\ outSocks' = {} /\ handshakes' = << >>
                 /\ wsControl' = 0
                 /\ finished' = 0
       /\ (\E host \in Hosts :
               /\ Len(inResponses) = 1
               /\ inResponses[1].body = "No route for host: " \o host \o "\n")
              => /\ outSock' = 0 /\ outSocks' = {} /\ handshakes' = << >>
                 /\ wsControl' = 0
                 /\ (InClosed \/ InError) => finished' = 1]_vars

\* the client was told there is no route for its host, and the session
\* finished without an origin
C11_NoRouteFinished ==
    /\ Len(inResponses) = 1
    /\ inResponses[1].code = 502
    /\ inResponses[1].body = "No route for host: example.net\n"
    /\ handshakes = << >>
    /\ finished = 1

\* C12: the client gets at most one handshake response.  A response is
\* sent only in state Connecting (which start() enters from Idle before it
\* answers) and when none was sent before; in state
\* Connected an error of either transport sends nothing and releases:
\* out_error releases outSock, and unless detached inSock too, finishing.
C12_OneHandshakeResponse ==
    /\ [](Len(inResponses) <= 1)
    /\ [][/\ inResponses' # inResponses
              => /\ state = "Connecting" \/ (state = "Idle" /\ Start)
                 /\ inResponses = << >>
                 /\ Len(inResponses') = 1
                 /\ inResponses'[1].kind = "error" => state' = "Closing"
                 /\ inResponses'[1].kind = "success" => state' = "Connected"
          /\ (state = "Connected" /\ errorCondition' # "None")
              => /\ inResponses' = inResponses
                 /\ outSock' = 0
                 /\ ~detached => inSock' = 0 /\ finished' = 1
          /\ (state = "Connected" /\ InError)
              => /\ inResponses' = inResponses
                 /\ inSock' = 0]_vars

\* the origin failed after the handshake: the client holds the success
\* response only and the session finished
C12_QuietFailureAfterConnected ==
    /\ state = "Connected"
    /\ errorCondition = "ErrorGeneric"
    /\ Len(inResponses) = 1
    /\ inResponses[1].kind = "success"
    /\ ~detached
    /\ finished = 1

\* C13: with a control session attached and not detached, an upstream
\* content frame is routed by its prefix.  A Text frame beginning with "c:"
\* is not written to the client, and its payload without the prefix goes to
\* the control session only if more = FALSE; the Continuations of a
\* fragmented "c:" message go nowhere.  Another head beginning with
\* messagePrefix is written to the client, a head with neither prefix is
\* not.  The control session receives nothing else from the session but
\* the subscription of out_connected.
C13_RoutedByPrefix ==
    [][/\ \A f \in originChoices(originMore) :
              (/\ wsControl # 0 /\ ~detached /\ inSock # 0
               /\ f.type # "Ping"
               /\ OutReadyRead(<< f >>))
              => IF f.type = "Text" /\ startsWith(f.data, ControlPrefix)
                 THEN /\ inWritten' = inWritten
                      /\ gripSent' = IF f.more THEN gripSent
                                     ELSE Append(gripSent, mid(f.data, 2))
                 ELSE IF f.type = "Continuation"
                 THEN originControl
                          => inWritten' = inWritten /\ gripSent' = gripSent
                 ELSE /\ gripSent' = gripSent
                      /\ IF startsWith(f.data, messagePrefix)
                         THEN inWritten' = inWritten + 1
                              /\ inRelayed' = inRelayed + 1
                         ELSE inWritten' = inWritten
       /\ gripSent' # gripSent
              => \/ /\ state = "Connecting"
                    /\ subChannel # ""
                    /\ gripSent' = << subscribeMessage(subChannel) >>
                 \/ \E f \in originChoices(originMore) :
                        /\ f.type = "Text" /\ ~f.more
                        /\ startsWith(f.data, ControlPrefix)
                        /\ wsControl # 0 /\ ~detached
                        /\ gripSent' = Append(gripSent, mid(f.data, 2))
                        /\ OutReadyRead(<< f >>)]_vars

\* a "c:" frame reached the control session, and the Continuation of a
\* fragmented "c:" message has been read and gone nowhere
C13_ControlMessageConsumed ==
    /\ wsControl # 0
    /\ ~detached
    /\ gripSent = << << "k" >> >>
    /\ originSent = 3
    /\ outAvail = << >>
    /\ msgRoutes = << "dropped", "dropped" >>
    /\ inWritten = 0
    /\ ~crashed

\* C14: whenever out_connected activates GRIP, by a grip extension in the
\* origin's response or by a non-empty subChannel of the target alone,
\* messagePrefix is afterwards the extension's message-prefix parameter if
\* there is one and "m:" otherwise.
C14_MessagePrefixSet ==
    [][\A response \in AcceptedResponses :
           LET grip == getExtension(
                           takenValues(response.headers, ExtensionsHeader),
                           GripName)
           IN  (/\ OutConnectedWith(response)
                /\ ~isNull(grip) \/ subChannel # "")
               => messagePrefix' =
                      IF ~isNull(grip)
                         /\ hashContains(grip.params, MessagePrefixParam)
                      THEN hashValue(grip.params, MessagePrefixParam)
                      ELSE DefaultMessagePrefix]_vars

C16_HandshakeHoldsClient ==
    state = "Connecting"
        => /\ inSock # 0
           /\ outSock = 0 \/ outState = "Connecting"

\* C17: detached, once set, stays set; a detach event received while
\* detached changes nothing of the session or its transports; the first
\* detach event sets detached and calls outSock->close() only if outSock
\* exists and is not closing, leaving the origin transport alone otherwise.
C17_DetachLatch ==
    [][/\ detached => detached'
       /\ (detached /\ DetachEvent)
              => UNCHANGED << state, wsControlManager, wsControl, inSock,
                              outSock, inPending, outPending,
                              outReadInProgress, targets, messagePrefix,
                              detached, subChannel, inState, outState,
                              inAvail, outAvail, inUnacked, outUnacked,
                              inPeerClosed, outPeerClosed, inResponses,
                              handshakes, outWritten, inWritten, inRelayed,
                              gripSent, finished, msgRoutes, outSocks,
                              crashed, nullUsed, inLog, outLog >>
       /\ (~detached /\ DetachEvent)
              => /\ detached'
                 /\ outSock' = outSock
                 /\ inSock' = inSock /\ inState' = inState
                 /\ outState' = IF outSock # 0 /\ outState # "Closing"
                                THEN "Closing" ELSE outState]_vars

\* the latch is set, the origin transport is released, the control session
\* is still there to deliver further detach events
C17_DetachedWithoutOrigin ==
    /\ detached
    /\ outSock = 0
    /\ outState = "Idle"
    /\ inSock # 0
    /\ inState = "Connected"
    /\ wsControl # 0
    /\ inPeerClosed

\* C18: a stall loses nothing and ends.  The client's frames are written
\* to outSock or still queued on inSock; and while not detached and with
\* both transports connected, frames are left queued between callbacks
\* only when the pending counter is at its ceiling, frames queued on inSock
\* are eventually all written to outSock and frames queued on outSock are
\* eventually all read by tryReadOut, the peers acknowledging.
C18_StallsResume ==
    /\ []((inSock # 0 /\ ~crashed)
              => Len(outLog) + Len(inAvail) = clientSent)
    /\ []((~detached /\ ~crashed /\ inSock # 0 /\ inState = "Connected"
              /\ outSock # 0 /\ outState = "Connected")
              => /\ Len(inAvail) > 0 => outPending >= PENDING_FRAMES_MAX
                 /\ Len(outAvail) > 0 => inPending >= PENDING_FRAMES_MAX)
    /\ (Len(inAvail) > 0 /\ ~detached
           /\ inSock # 0 /\ inState = "Connected"
           /\ outSock # 0 /\ outState = "Connected")
         ~> \/ inAvail = << >>
            \/ detached \/ crashed
            \/ inSock = 0 \/ inState # "Connected"
            \/ outSock = 0 \/ outState # "Connected"
    /\ (Len(outAvail) > 0 /\ ~detached
           /\ inSock # 0 /\ inState = "Connected"
           /\ outSock # 0 /\ outState = "Connected")
         ~> \/ outAvail = << >>
            \/ detached \/ crashed
            \/ inSock = 0 \/ inState # "Connected"
            \/ outSock = 0 \/ outState # "Connected"

\* the client's last frame went out after a stall at the ceiling
C18_ClientStallResumed ==
    /\ clientSent = PENDING_FRAMES_MAX + 1
    /\ outWritten = PENDING_FRAMES_MAX + 1
    /\ outPending = PENDING_FRAMES_MAX
    /\ inAvail = << >>
    /\ ~detached
    /\ outSock # 0 /\ outState = "Connected"
    /\ inSock # 0 /\ inState = "Connected"

\* C19: no callback calls through inSock or outSock after the session
\* released it: tryReadIn runs with both transports non-null, tryReadOut
\* with outSock non-null and writes to a non-null inSock, reject and
\* out_connected answer on a non-null inSock.
C19_NoReleasedTransportUsed ==
    ~nullUsed

\* C20: the frames written to the client form a well-formed message
\* stream.  Checked here for head frames: a Text or Binary head, relayed
\* from the origin or made for a sendEvent, is written only when the last
\* content frame written had more = FALSE.  (That a Continuation is written
\* only inside an open message fails with C1_FragmentsRoutedAlike.)
C20_ClientStreamWellFormed ==
    [][/\ \A f \in originChoices(originMore) :
              (/\ f.type \in { "Text", "Binary" }
               /\ inRelayed' = inRelayed + 1
               /\ OutReadyRead(<< f >>))
              => ~inOpen
       /\ (inWritten' = inWritten + 1 /\ inRelayed' = inRelayed)
              => ~inOpen]_vars

=============================================================================
